---- MODULE Spec2Model ----
(***************************************************************************)
(* Model of app/debugging/debugger.py: the Debugger engine that runs an    *)
(* instrumented program on its own thread and exchanges commands and       *)
(* snapshots with controlling threads through two FIFO queues.             *)
(***************************************************************************)
EXTENDS Naturals, Sequences, FiniteSets, TLC

(* ------------------------------ bounds -------------------------------- *)

\* how many times start() may spawn a thread on the one Debugger object
MaxStarts == 2
\* how many commands (send_command and finish together) the controllers send
MaxSends == 3
\* how many commands the controller sends in the runs that call start() again
MaxRestartSends == 2

(* ---------------------------- vocabulary ------------------------------ *)

\* the controlling threads: the controller, which calls every public operation,
\* and a second thread of the controlling side that only polls for snapshots
Controller == "c1"
Poller == "c2"
Controllers == {Controller, Poller}

\* debuggee threads, in the order start() spawns them
Tids == 1..MaxStarts

\* DebugCommand members (lines 29-31)
DebugCommand == {"STEP_OVER", "STEP_IN", "STEP_OUT"}

\* the class object DebuggerExit, used as the stop command on the command
\* queue (line 102) and as the finished signal on the snapshot queue (line 131)
DebuggerExit == "DebuggerExit"

\* source texts handed to start()
EmptySource == ""
MalformedSource == "def f(:"
SrcAssign == "x = 1\ny = 2\n"
SrcFault == "x = 1\n1/0\n"
SrcTry == "try:\n    x = 1\nexcept Exception:\n    y = 2\nz = 3\n"
SrcCall == "def f():\n    a = 1\n    b = 2\nf()\n"
ValidSources == {SrcAssign, SrcFault, SrcTry, SrcCall}
Sources == {EmptySource, MalformedSource} \cup ValidSources

\* compile(source, filename, 'exec') rejects malformed text (lines 115-117)
CompileRejects(source) == source = MalformedSource

\* The instrumented code object: the steppable points of the program, each
\* preceded by one call of the trace hook.  A point has its source line, the
\* call depth of the frame it runs in (0: the top level), the top-level name
\* its statement binds ("": none), whether its instructions raise a runtime
\* error, the point control reaches after it completes (0: the program ends)
\* and the point of the enclosing "except Exception" handler (0: an exception
\* raised there leaves the program).
Point(line, depth, binds, raises, next, handler) ==
    [line |-> line, depth |-> depth, binds |-> binds, raises |-> raises,
     next |-> next, handler |-> handler]

Modify(source) ==
    CASE source = SrcAssign -> << Point(1, 0, "x", FALSE, 2, 0),
                                  Point(2, 0, "y", FALSE, 0, 0) >>
      [] source = SrcFault  -> << Point(1, 0, "x", FALSE, 2, 0),
                                  Point(2, 0, "", TRUE, 0, 0) >>
      [] source = SrcTry    -> << Point(2, 0, "x", FALSE, 3, 2),
                                  Point(4, 0, "y", FALSE, 3, 0),
                                  Point(5, 0, "z", FALSE, 0, 0) >>
      [] source = SrcCall   -> << Point(1, 0, "f", FALSE, 2, 0),
                                  Point(4, 0, "", FALSE, 3, 0),
                                  Point(2, 1, "", FALSE, 4, 0),
                                  Point(3, 1, "", FALSE, 0, 0) >>
      [] OTHER              -> << >>

\* the namespace exec() runs the program in: the two reserved bindings of
\* _run (lines 135-138) and the builtins reference exec() adds (line 139)
RunGlobals == {"trace", "command", "__builtins__"}

\* a snapshot dictionary built by the hook (lines 143-147); the bindings are
\* the live namespace of the thread that built it, named here by the thread
Snapshot(t, line) == [kind |-> "snapshot", tid |-> t, line_no |-> line]
\* the finished signal as it travels on the snapshot queue
ExitItem == [kind |-> DebuggerExit, tid |-> 0, line_no |-> 0]

\* mutant: a stack instead of a queue, put pushes in front
QueuePut_Lifo(q, x) == << x >> \o q
\* mutant: get returns the oldest item and leaves it in the queue
QueueRest_Peek(q) == q

\* mutant: get returns the newest item
QueueFront_Newest(q) == q[Len(q)]

\* mutant: the queues are made with room for one item
QueueFull_Bounded(q) == Len(q) >= 1

\* Queue() is made without a maxsize (lines 40-41): size 0, no upper limit
QueueMaxSize == 0
\* whether put() has to wait for room in the queue
QueueFull(q) == QueueMaxSize > 0 /\ Len(q) >= QueueMaxSize

\* queue.Queue as the Debugger uses it (lines 40-41): put appends (lines 72,
\* 102, 131, 148), get takes the oldest item (lines 87, 150)
QueuePut(q, x) == Append(q, x)
QueueFront(q) == Head(q)
QueueRest(q) == Tail(q)

(* ------------------------------- state -------------------------------- *)

VARIABLES
    commands,    \* self._commands
    snapshots,   \* self._snapshots
    finished,    \* self._finished
    pc,          \* where each debuggee thread is
    code,        \* the source each debuggee thread runs
    ip,          \* the steppable point each debuggee thread is at
    globals_,    \* the names bound in each thread's namespace (globals_ of _run)
    how,         \* how each thread's _run ended
    cpc,         \* the operation each controller is blocked in, or "idle"
    last,        \* the controller operation that completed last, and how
    sent,        \* history: commands put on the command queue
    consumed,    \* history: commands taken, each with the hook invocation that took it
    ran,         \* history: points whose instructions have been run
    published,   \* history: items put on the snapshot queue
    delivered    \* history: items taken by get_snapshot calls

debuggerVars == << commands, snapshots, finished >>
threadVars == << pc, code, ip, globals_, how >>
ctlVars == << cpc, last >>
histVars == << sent, consumed, ran, published, delivered >>
vars == << commands, snapshots, finished, pc, code, ip, globals_, how,
           cpc, last, sent, consumed, ran, published, delivered >>

\* a call of op by a controlling thread ended with result: "returned",
\* "snapshot", or the name of the exception raised
Outcome(c, op, result) == [op |-> op, result |-> result]

\* Debugger.__init__ (lines 39-44), no thread, no controller inside a call
Init ==
    /\ commands = << >>
    /\ snapshots = << >>
    /\ finished = FALSE
    /\ pc = [t \in Tids |-> "unborn"]
    /\ code = [t \in Tids |-> EmptySource]
    /\ ip = [t \in Tids |-> 0]
    /\ globals_ = [t \in Tids |-> {}]
    /\ how = [t \in Tids |-> "none"]
    /\ cpc = [c \in Controllers |-> "idle"]
    /\ last = Outcome("none", "none", "none")
    /\ sent = << >>
    /\ consumed = << >>
    /\ ran = << >>
    /\ published = << >>
    /\ delivered = << >>

Started == {t \in Tids : pc[t] # "unborn"}

(* ----------------------- controller operations ------------------------ *)

\* mutant: start() without the test for empty source of lines 57-58
StartRaises_NoEmptyTest(source) ==
    IF CompileRejects(source) THEN "SyntaxError" ELSE "none"

\* what start() raises before it spawns anything (lines 57-60, 114-117)
StartRaises(source) ==
    IF source = EmptySource THEN "EmptySourceCode"
    ELSE IF CompileRejects(source) THEN "SyntaxError"
    ELSE "none"

\* Debugger.start (lines 46-63): no test of an earlier start
Start(c, source) ==
    /\ cpc[c] = "idle"
    /\ IF StartRaises(source) # "none"
       THEN /\ last' = Outcome(c, "start", StartRaises(source))
            /\ UNCHANGED threadVars
       ELSE /\ Cardinality(Started) < MaxStarts
            /\ LET t == Cardinality(Started) + 1 IN
                 /\ pc' = [pc EXCEPT ![t] = "hook"]
                 /\ code' = [code EXCEPT ![t] = source]
                 /\ ip' = [ip EXCEPT ![t] = 1]
                 /\ globals_' = [globals_ EXCEPT ![t] = RunGlobals]
                 /\ UNCHANGED how
            /\ last' = Outcome(c, "start", "returned")
    /\ UNCHANGED << debuggerVars, cpc, histVars >>

\* Debugger.send_command (lines 65-72): the body is the put alone, nothing
\* tests whether the session was started
SendCommand(c, command) ==
    /\ cpc[c] = "idle"
    /\ ~QueueFull(commands)
    /\ commands' = QueuePut(commands, command)
    /\ sent' = Append(sent, command)
    /\ last' = Outcome(c, "send_command", "returned")
    /\ UNCHANGED << snapshots, finished, threadVars, cpc, consumed, ran, published, delivered >>

\* Debugger.finish (lines 94-102)
Finish(c) ==
    /\ cpc[c] = "idle"
    /\ ~QueueFull(commands)
    /\ commands' = QueuePut(commands, DebuggerExit)
    /\ sent' = Append(sent, DebuggerExit)
    /\ last' = Outcome(c, "finish", "returned")
    /\ UNCHANGED << snapshots, finished, threadVars, cpc, consumed, ran, published, delivered >>

\* Debugger.get_snapshot, entry: the caller blocks in self._snapshots.get() (line 87)
GetSnapshotCall(c) ==
    /\ cpc[c] = "idle"
    /\ cpc' = [cpc EXCEPT ![c] = "get_snapshot"]
    /\ UNCHANGED << debuggerVars, threadVars, last, histVars >>

\* what get_snapshot does with the item it took (lines 89-92)
GetSnapshotResult(item) ==
    IF item.kind = DebuggerExit THEN DebuggerExit ELSE "snapshot"

\* Debugger.get_snapshot, from the item's arrival to the return or raise (lines 87-92)
GetSnapshotReturn(c) ==
    /\ cpc[c] = "get_snapshot"
    /\ snapshots # << >>
    /\ LET item == QueueFront(snapshots) IN
         /\ snapshots' = QueueRest(snapshots)
         /\ delivered' = Append(delivered, item)
         /\ last' = Outcome(c, "get_snapshot", GetSnapshotResult(item))
    /\ cpc' = [cpc EXCEPT ![c] = "idle"]
    /\ UNCHANGED << commands, finished, threadVars, sent, consumed, ran, published >>

\* Debugger.join, entry: the caller blocks in self._finished.wait() (line 110)
JoinCall(c) ==
    /\ cpc[c] = "idle"
    /\ cpc' = [cpc EXCEPT ![c] = "join"]
    /\ UNCHANGED << debuggerVars, threadVars, last, histVars >>

\* whether Event.wait() lets the caller through (line 110)
JoinMayReturn == finished

\* Debugger.join, return (lines 104-110)
JoinReturn(c) ==
    /\ cpc[c] = "join"
    /\ JoinMayReturn
    /\ cpc' = [cpc EXCEPT ![c] = "idle"]
    /\ last' = Outcome(c, "join", "returned")
    /\ UNCHANGED << debuggerVars, threadVars, histVars >>

(* -------------------------- debuggee thread --------------------------- *)

CurrentPoint(t) == Modify(code[t])[ip[t]]

\* mutant: the hook returns after the put without taking a command
TraceAfterPut_NoWait == "stmt"

\* where the hook goes after it has put its snapshot: it blocks in
\* self._commands.get() (line 150)
TraceAfterPut == "wait"

\* Debugger._trace, first half (lines 142-148): build and publish the snapshot
TracePublish(t) ==
    /\ pc[t] = "hook"
    /\ ~QueueFull(snapshots)
    /\ LET snapshot == Snapshot(t, CurrentPoint(t).line) IN
         /\ snapshots' = QueuePut(snapshots, snapshot)
         /\ published' = Append(published, snapshot)
    /\ pc' = [pc EXCEPT ![t] = TraceAfterPut]
    /\ UNCHANGED << commands, finished, code, ip, globals_, how, ctlVars,
                    sent, consumed, ran, delivered >>

\* whether the hook raises DebuggerExit for the command it took (lines 152-153)
TraceRaises(command) == command = DebuggerExit

\* class DebuggerExit(Exception) (line 13): the program's "except Exception"
\* handler catches the control signal as it catches a runtime error
HandlerCatches(exc) == exc \in {DebuggerExit, "RuntimeError"}

\* an exception raised at thread t's current point: control moves to the
\* enclosing handler of the program, or leaves exec() and _run (line 139)
Unwind(t, exc) ==
    IF CurrentPoint(t).handler # 0 /\ HandlerCatches(exc)
    THEN /\ ip' = [ip EXCEPT ![t] = CurrentPoint(t).handler]
         /\ pc' = [pc EXCEPT ![t] = "hook"]
         /\ UNCHANGED how
    ELSE /\ pc' = [pc EXCEPT ![t] = "finally"]
         /\ how' = [how EXCEPT ![t] = IF exc = DebuggerExit THEN "stop" ELSE "error"]
         /\ UNCHANGED ip

\* a command taken from the command queue by the hook invocation of thread t
\* at the point of the given line
Taken(command, t, line) == [command |-> command, tid |-> t, line_no |-> line]

\* Debugger._trace, second half (lines 150-153): take one command
TraceCommand(t) ==
    /\ pc[t] = "wait"
    /\ commands # << >>
    /\ LET command == QueueFront(commands) IN
         /\ commands' = QueueRest(commands)
         /\ consumed' = Append(consumed, Taken(command, t, CurrentPoint(t).line))
         /\ IF TraceRaises(command)
            THEN Unwind(t, DebuggerExit)
            ELSE /\ pc' = [pc EXCEPT ![t] = "stmt"]
                 /\ UNCHANGED << ip, how >>
    /\ UNCHANGED << snapshots, finished, code, globals_, ctlVars,
                    sent, ran, published, delivered >>

\* exec(code, globals_) (line 139): the instructions of the current point
Statement(t) ==
    /\ pc[t] = "stmt"
    /\ ran' = Append(ran, [tid |-> t, line_no |-> CurrentPoint(t).line])
    /\ IF CurrentPoint(t).raises
       THEN /\ Unwind(t, "RuntimeError")
            /\ UNCHANGED globals_
       ELSE /\ globals_' = [globals_ EXCEPT ![t] = @ \cup ({CurrentPoint(t).binds} \ {""})]
            /\ IF CurrentPoint(t).next = 0
               THEN /\ pc' = [pc EXCEPT ![t] = "finally"]
                    /\ how' = [how EXCEPT ![t] = "completed"]
                    /\ UNCHANGED ip
               ELSE /\ pc' = [pc EXCEPT ![t] = "hook"]
                    /\ ip' = [ip EXCEPT ![t] = CurrentPoint(t).next]
                    /\ UNCHANGED how
    /\ UNCHANGED << debuggerVars, code, ctlVars, sent, consumed, published, delivered >>

\* mutant: the two statements follow the try statement instead of being its
\* finally clause, so a runtime error of the program skips them
FinallyRuns_NotOnError(h) == h \in {"completed", "stop"}

\* whether the statements that put the finished signal and set the event run
\* for a run that ended this way: they are the finally clause of the try
\* statement around self._run(code) (lines 126-132)
FinallyRuns(h) == h \in {"completed", "stop", "error"}

\* Debugger._bootstrap, finally clause, first statement (line 131)
BootstrapPut(t) ==
    /\ pc[t] = "finally"
    /\ IF FinallyRuns(how[t])
       THEN /\ ~QueueFull(snapshots)
            /\ snapshots' = QueuePut(snapshots, ExitItem)
            /\ published' = Append(published, ExitItem)
            /\ pc' = [pc EXCEPT ![t] = "set"]
       ELSE /\ pc' = [pc EXCEPT ![t] = "done"]
            /\ UNCHANGED << snapshots, published >>
    /\ UNCHANGED << commands, finished, code, ip, globals_, how, ctlVars,
                    sent, consumed, ran, delivered >>

\* mutant: self._finished.set() also stands before the put of the finished
\* signal, so the event is set on entry to the finally clause
BootstrapSet_BeforePut(t) ==
    /\ pc[t] \in {"finally", "set"}
    /\ finished' = TRUE
    /\ pc' = [pc EXCEPT ![t] = IF pc[t] = "set" THEN "done" ELSE @]
    /\ UNCHANGED << commands, snapshots, code, ip, globals_, how, ctlVars, histVars >>

\* Debugger._bootstrap, finally clause, second statement (line 132); the thread
\* ends after it, an uncaught runtime error going to the thread's own handler
BootstrapSet(t) ==
    /\ pc[t] = "set"
    /\ finished' = TRUE
    /\ pc' = [pc EXCEPT ![t] = "done"]
    /\ UNCHANGED << commands, snapshots, code, ip, globals_, how, ctlVars, histVars >>

(* --------------------------- specification ---------------------------- *)

\* the calls of one controlling thread other than start(), as long as it may
\* still send commands
Control(c) ==
    \/ \E command \in DebugCommand : Len(sent) < MaxSends /\ SendCommand(c, command)
    \/ Len(sent) < MaxSends /\ Finish(c)
    \/ GetSnapshotCall(c)
    \/ GetSnapshotReturn(c)
    \/ JoinCall(c)
    \/ JoinReturn(c)

\* the calls of a thread that only polls for snapshots
Poll(c) ==
    \/ GetSnapshotCall(c)
    \/ GetSnapshotReturn(c)

\* the steps of the debuggee threads
Debuggee ==
    \/ \E t \in Tids : TracePublish(t)
    \/ \E t \in Tids : TraceCommand(t)
    \/ \E t \in Tids : Statement(t)
    \/ \E t \in Tids : BootstrapPut(t)
    \/ \E t \in Tids : BootstrapSet(t)

\* a session whose controller starts it once: start() may fail any number of
\* times, and is not called again after it has spawned the debuggee thread
Next ==
    \/ \E source \in Sources : Started = {} /\ Start(Controller, source)
    \/ Control(Controller)
    \/ Poll(Poller)
    \/ Debuggee

Spec == Init /\ [][Next]_vars

\* any sequence of public operations by the controller on the one object:
\* start() again while the session runs or after it has finished
NextRestart ==
    \/ \E source \in Sources : Start(Controller, source)
    \/ \E command \in DebugCommand :
          Len(sent) < MaxRestartSends /\ SendCommand(Controller, command)
    \/ Len(sent) < MaxRestartSends /\ Finish(Controller)
    \/ GetSnapshotCall(Controller)
    \/ GetSnapshotReturn(Controller)
    \/ JoinCall(Controller)
    \/ JoinReturn(Controller)
    \/ Debuggee

SpecRestart == Init /\ [][NextRestart]_vars

\* the session started once under the scheduling the threads get: a thread
\* that can take a step is eventually run, and a blocked call returns once
\* what it waits for stays available
Fairness ==
    /\ \A t \in Tids : WF_vars(TracePublish(t)) /\ WF_vars(TraceCommand(t))
    /\ \A t \in Tids : WF_vars(Statement(t))
    /\ \A t \in Tids : WF_vars(BootstrapPut(t)) /\ WF_vars(BootstrapSet(t))
    /\ \A c \in Controllers : WF_vars(GetSnapshotReturn(c))
    /\ WF_vars(JoinReturn(Controller))

FairSpec == Spec /\ Fairness

\* a controller that calls get_snapshot() after a successful start() and
\* after each command it sent, and no more once the finished signal came
DisciplinedGet(c) ==
    /\ Started # {}
    /\ last \in { Outcome(c, "start", "returned"),
                  Outcome(c, "send_command", "returned"),
                  Outcome(c, "finish", "returned") }
    /\ GetSnapshotCall(c)

\* the one command such a controller sends for the snapshot it was returned
DisciplinedSend(c) ==
    /\ last = Outcome(c, "get_snapshot", "snapshot")
    /\ \/ \E command \in DebugCommand : SendCommand(c, command)
       \/ Finish(c)

\* the session driven by that controller alone, started once
NextDisciplined ==
    \/ \E source \in Sources : Started = {} /\ Start(Controller, source)
    \/ DisciplinedGet(Controller)
    \/ DisciplinedSend(Controller)
    \/ GetSnapshotReturn(Controller)
    \/ Debuggee

SpecDisciplined == Init /\ [][NextDisciplined]_vars

\* the threads are scheduled as in Fairness, and the controller goes on with
\* its loop
FairnessDisciplined ==
    /\ \A t \in Tids : WF_vars(TracePublish(t)) /\ WF_vars(TraceCommand(t))
    /\ \A t \in Tids : WF_vars(Statement(t))
    /\ \A t \in Tids : WF_vars(BootstrapPut(t)) /\ WF_vars(BootstrapSet(t))
    /\ WF_vars(GetSnapshotReturn(Controller))
    /\ WF_vars(DisciplinedGet(Controller))
    /\ WF_vars(DisciplinedSend(Controller))

FairDisciplined == SpecDisciplined /\ FairnessDisciplined

(* ------------------------- helpers of the claims ---------------------- *)

IsPrefix(a, b) == Len(a) <= Len(b) /\ \A k \in 1..Len(a) : a[k] = b[k]
IsSnapshot(item) == item.kind = "snapshot"
IsResume(taken) == taken.command # DebuggerExit
Lines(seq) == [k \in 1..Len(seq) |-> seq[k].line_no]
Commands(seq) == [k \in 1..Len(seq) |-> seq[k].command]
\* the snapshots the hook has published, without the finished signal
PublishedSnapshots == SelectSeq(published, IsSnapshot)
DeliveredSnapshots == SelectSeq(delivered, IsSnapshot)
\* the thread of a session started once
Debuggee1 == 1

(* -------------------------------- C1 ---------------------------------- *)

\* C1: in a session started once the hook events alternate strictly: the
\* snapshots published are the commands consumed or one more, the k-th command
\* is consumed by the hook invocation that published the k-th snapshot, and the
\* points whose instructions have run are, in order, the points whose hook
\* consumed a command other than the stop command, the last of them possibly
\* still to run; so no more points have run than commands were consumed.
C1_StrictAlternation ==
    LET resumed == SelectSeq(consumed, IsResume) IN
    /\ Len(PublishedSnapshots) - Len(consumed) \in {0, 1}
    /\ Len(consumed) <= Len(PublishedSnapshots)
    /\ Lines(consumed) = SubSeq(Lines(PublishedSnapshots), 1, Len(consumed))
    /\ Len(ran) <= Len(consumed)
    /\ IsPrefix(Lines(ran), Lines(resumed))
    /\ Len(resumed) - Len(ran) = (IF pc[Debuggee1] = "stmt" THEN 1 ELSE 0)

\* two points have run, each after its own snapshot and its own command
C1_Witness ==
    /\ Len(ran) = 2
    /\ Len(consumed) = 2
    /\ Len(PublishedSnapshots) = 2

(* -------------------------------- C2 ---------------------------------- *)

\* the lines of the points a program runs when every hook invocation returns
\* normally, in the order it runs them, from point i on
RECURSIVE PathFrom(_, _)
PathFrom(source, i) ==
    IF i = 0 THEN << >>
    ELSE LET p == Modify(source)[i] IN
         << p.line >> \o PathFrom(source, IF p.raises THEN p.handler ELSE p.next)

\* what the controller is to receive from a program stepped over to its end
StepOverItems(source) ==
    LET path == PathFrom(source, 1) IN
    [k \in 1..Len(path) |-> Snapshot(Debuggee1, path[k])] \o << ExitItem >>

AllStepOver == \A k \in 1..Len(sent) : sent[k] = "STEP_OVER"

\* C2: while every command sent is STEP_OVER, what get_snapshot has returned
\* is a prefix of the snapshots of the N points the program runs, in program
\* order, followed by the finished signal: N snapshots, one per point, and the
\* finished signal on call N+1 and not before.
C2_StepOverDeliversAll ==
    (Started # {} /\ AllStepOver) =>
        IsPrefix(delivered, StepOverItems(code[Debuggee1]))

\* a two-point program stepped over to its end: two snapshots, then finished
C2_Witness ==
    /\ Started # {}
    /\ AllStepOver
    /\ Len(sent) = Len(PathFrom(code[Debuggee1], 1))
    /\ delivered = StepOverItems(code[Debuggee1])
    /\ last = Outcome(Controller, "get_snapshot", DebuggerExit)

(* -------------------------------- C3 ---------------------------------- *)

\* C3: the get_snapshot call the controller makes right after its finish()
\* raises the finished signal, whatever snapshots were undelivered and
\* whatever commands were buffered when the stop command was sent.
C3_StopThenFinished ==
    [][(/\ last.op = "finish"
        /\ cpc[Controller] = "get_snapshot"
        /\ cpc'[Controller] = "idle")
       => last'.result = DebuggerExit]_vars

(* -------------------------------- C4 ---------------------------------- *)

\* the debuggee thread of the session has ended
SessionFinished == pc[Debuggee1] = "done"

\* C4: on a finished session no get_snapshot call stays blocked: a caller
\* inside get_snapshot always has an item to take.
C4_NoCallBlocksOnFinished ==
    \A c \in Controllers :
        (SessionFinished /\ cpc[c] = "get_snapshot") => snapshots # << >>

(* -------------------------------- C5 ---------------------------------- *)

\* what a controller operation can end with: a return, a returned snapshot,
\* or one of the exceptions of lines 13-22 and of compile()
ControllerResults ==
    {"none", "returned", "snapshot", "EmptySourceCode", "SyntaxError",
     DebuggerExit, "DebuggerNotStarted"}

\* the finished signal has been put behind every snapshot and is still the
\* last item of the snapshot queue, or has been delivered
FinishedSignalled ==
    /\ published # << >>
    /\ published[Len(published)] = ExitItem
    /\ \/ snapshots # << >> /\ snapshots[Len(snapshots)] = ExitItem
       \/ \E k \in 1..Len(delivered) : delivered[k] = ExitItem

\* C5: when the run has ended with a runtime error of the program, no
\* controller operation has failed with it, and once the thread has ended the
\* session is finished as after a stop: the finished signal is on the snapshot
\* queue behind the undelivered snapshots (or was delivered) and the event is
\* set, so that join() returns.
C5_ErrorFinishesSession ==
    how[Debuggee1] = "error" =>
        /\ last.result \in ControllerResults
        /\ pc[Debuggee1] = "done" => (FinishedSignalled /\ JoinMayReturn)

\* the program failed at its second point and the controller got the
\* finished signal from get_snapshot
C5_Witness ==
    /\ how[Debuggee1] = "error"
    /\ pc[Debuggee1] = "done"
    /\ last = Outcome(Controller, "get_snapshot", DebuggerExit)

(* -------------------------------- C6 ---------------------------------- *)

RunEnded(t) == how[t] \in {"stop", "error", "completed"}

\* C6: join() returns only when the run of the debuggee thread has ended,
\* and however the run ended (stop consumed, uncaught error, natural
\* completion) a controller blocked in join() eventually returns.
C6_JoinWaitsForEnd ==
    /\ [][(cpc[Controller] = "join" /\ cpc'[Controller] = "idle")
            => (RunEnded(Debuggee1) /\ pc[Debuggee1] = "done")]_vars
    /\ \A h \in {"stop", "error", "completed"} :
          (how[Debuggee1] = h /\ cpc[Controller] = "join")
              ~> (cpc[Controller] = "idle" /\ last.op = "join")

\* join() has returned for a run that ended by the stop command
C6_Witness ==
    /\ last = Outcome(Controller, "join", "returned")
    /\ how[Debuggee1] = "stop"

(* -------------------------------- C7 ---------------------------------- *)

\* C7: whatever public operations are called on the one object, start() twice
\* included, at most one debuggee thread ever exists, so at most one hook
\* invocation is suspended on the command queue, and no snapshot is put on
\* the snapshot queue behind a finished signal.
C7_OneDebuggeeThread ==
    /\ Cardinality(Started) <= 1
    /\ Cardinality({t \in Tids : pc[t] = "wait"}) <= 1
    /\ \A j, k \in 1..Len(published) :
          (j < k /\ published[j] = ExitItem) => ~IsSnapshot(published[k])

(* -------------------------------- C8 ---------------------------------- *)

\* C8: what the get_snapshot calls of the two callers have returned, followed
\* by what is still queued, is what has been published, in publication
\* order: each published item goes to one call, none twice, none skipped.
C8_EachSnapshotOnce ==
    delivered \o snapshots = published

\* two snapshots have gone to get_snapshot calls and both callers are inside
\* get_snapshot again, with a third item queued for one of them
C8_Witness ==
    /\ Len(DeliveredSnapshots) = 2
    /\ \A c \in Controllers : cpc[c] = "get_snapshot"
    /\ snapshots # << >>

(* -------------------------------- C9 ---------------------------------- *)

\* C9: the commands the hook invocations have taken, followed by the commands
\* still buffered, are the commands sent, in the order sent, and the k-th
\* command was taken by the k-th hook invocation (the one that published the
\* k-th snapshot); a command sent while no hook is suspended stays buffered.
C9_CommandsFifo ==
    /\ Commands(consumed) \o commands = sent
    /\ Len(consumed) <= Len(PublishedSnapshots)
    /\ \A k \in 1..Len(consumed) :
          /\ consumed[k].tid = PublishedSnapshots[k].tid
          /\ consumed[k].line_no = PublishedSnapshots[k].line_no

\* two different commands were taken in the order sent and a third, sent
\* while no hook was suspended, is buffered
C9_Witness ==
    /\ Len(consumed) = 2
    /\ consumed[1].command # consumed[2].command
    /\ Len(commands) = 1
    /\ pc[Debuggee1] \in {"hook", "stmt"}

(* -------------------------------- C10 --------------------------------- *)

\* C10: send_command on a session not started fails with DebuggerNotStarted
\* and leaves the command queue as it was: no command of a send_command call
\* is in the queue of a session that was never started.
C10_SendBeforeStartFails ==
    (Started = {} /\ last.op = "send_command") =>
        /\ last.result = "DebuggerNotStarted"
        /\ \A k \in 1..Len(commands) : commands[k] \notin DebugCommand

(* -------------------------------- C11 --------------------------------- *)

\* C11: whenever the controller is not inside a call, start, send_command and
\* finish can each be carried out at once, wherever the debuggee thread is
\* and whatever the two queues hold; a controlling thread is only ever
\* suspended inside get_snapshot or join.
C11_OnlyGetAndJoinBlock ==
    /\ \A c \in Controllers : cpc[c] \in {"idle", "get_snapshot", "join"}
    /\ cpc[Controller] = "idle" =>
          /\ \A command \in DebugCommand : ENABLED SendCommand(Controller, command)
          /\ ENABLED Finish(Controller)
          /\ \A source \in Sources :
                Cardinality(Started) < MaxStarts => ENABLED Start(Controller, source)

\* the controller is free while the debuggee is suspended in a hook and both
\* queues hold items
C11_Witness ==
    /\ cpc[Controller] = "idle"
    /\ pc[Debuggee1] = "wait"
    /\ Len(commands) = 2
    /\ snapshots # << >>

(* -------------------------------- C12 --------------------------------- *)

\* C12: the finished signal the controller receives for a run that ended
\* with a runtime fault carries that fault, so that it differs from the
\* finished signal of a clean end, which is the bare DebuggerExit class.
C12_FaultRetrievable ==
    \A k \in 1..Len(delivered) :
        (how[Debuggee1] = "error" /\ delivered[k].kind = DebuggerExit)
            => delivered[k] # ExitItem

(* -------------------------------- C13 --------------------------------- *)

\* the exception start() is to raise for a source it cannot run
StartFailure(source) ==
    IF source = EmptySource THEN "EmptySourceCode" ELSE "SyntaxError"

\* C13: a call of start with empty source ends with the empty-source error
\* and one with source the compiler rejects ends with the compiler's error,
\* raised from start itself; the step spawns no thread and leaves both
\* queues and the finished event as they were.
C13_FailedStartNoEffect ==
    [][\A source \in {EmptySource, MalformedSource} :
         Start(Controller, source) =>
            /\ last' = Outcome(Controller, "start", StartFailure(source))
            /\ Started' = Started
            /\ UNCHANGED << commands, snapshots, finished, threadVars >>]_vars

\* start has failed on the compiler's error: the session is still not
\* started, both queues are empty and the event is unset
C13_Witness ==
    /\ last = Outcome(Controller, "start", "SyntaxError")
    /\ Started = {}
    /\ commands = << >>
    /\ snapshots = << >>
    /\ ~finished

(* -------------------------------- C14 --------------------------------- *)

\* the call depth of the frame in which the hook invocation of an item (a
\* snapshot, or a command taken) ran
DepthOf(item) ==
    LET points == Modify(code[item.tid])
        i == CHOOSE j \in 1..Len(points) : points[j].line = item.line_no
    IN points[i].depth

\* C14: after STEP_OUT taken by the hook invocation of a suspension at call
\* depth d >= 1, the next snapshot delivered to the controller is taken at a
\* depth less than d: hook invocations at depth d or deeper are not surfaced.
C14_StepOutLeavesFrame ==
    \A k \in 1..Len(consumed) :
        (/\ consumed[k].command = "STEP_OUT"
         /\ DepthOf(consumed[k]) >= 1
         /\ k + 1 <= Len(DeliveredSnapshots))
            => DepthOf(DeliveredSnapshots[k + 1]) < DepthOf(consumed[k])

(* -------------------------------- C15 --------------------------------- *)

\* the top-level names the program of thread t has bound so far: the
\* bindings of the points whose instructions ran
ProgramBindings(t) ==
    LET points == Modify(code[t])
    IN { points[i].binds : i \in { j \in 1..Len(points) :
            \E r \in 1..Len(ran) : ran[r].tid = t /\ ran[r].line_no = points[j].line } }
       \ {""}

\* the debuggee is suspended at a top-level point whose snapshot the
\* controller holds, and every command sent so far has been taken
SuspendedAtDelivered(t) ==
    /\ pc[t] = "wait"
    /\ CurrentPoint(t).depth = 0
    /\ DeliveredSnapshots # << >>
    /\ Len(DeliveredSnapshots) = Len(PublishedSnapshots)
    /\ Len(sent) = Len(consumed)

\* C15: the snapshot of a top-level point, read while the debuggee is still
\* suspended there, has the line of that point, and its global bindings (the
\* namespace the snapshot refers to) are exactly the names the program has
\* bound at the points run before: none at the first point, and nothing the
\* program did not bind.
C15_SnapshotShowsProgramBindings ==
    SuspendedAtDelivered(Debuggee1) =>
        /\ DeliveredSnapshots[Len(DeliveredSnapshots)].line_no = CurrentPoint(Debuggee1).line
        /\ globals_[Debuggee1] = ProgramBindings(Debuggee1)

(* -------------------------------- C16 --------------------------------- *)

\* C16: once a hook invocation has taken STOP as the k-th command, the
\* debuggee is unwound there: the instructions of the k-th point and of later
\* points never run and no snapshot after the k-th is published, whatever
\* the program (also when the point lies in a handler of general exceptions).
C16_StopUnwindsAtHook ==
    \A k \in 1..Len(consumed) :
        consumed[k].command = DebuggerExit =>
            /\ Len(ran) <= k - 1
            /\ Len(PublishedSnapshots) <= k

(* -------------------------------- C17 --------------------------------- *)

\* C17: while the session has not been started, no controller is suspended
\* in get_snapshot() or join(): the calls report the condition at once.
C17_NotStartedNeverBlocks ==
    Started = {} =>
        \A c \in Controllers :
            /\ ~(cpc[c] = "get_snapshot" /\ snapshots = << >>)
            /\ ~(cpc[c] = "join" /\ ~JoinMayReturn)

(* -------------------------------- C18 --------------------------------- *)

\* the positions of the finished signal among the items put on the snapshot
\* channel
FinishedPuts == { k \in 1..Len(published) : published[k] = ExitItem }

\* C18: in a session started once the finished signal is put on the snapshot
\* channel at most once and, when the thread has ended, exactly once; it is
\* the last item ever put (after every snapshot, nothing behind it); the
\* event is set only after the put; so when join() has returned the signal
\* is in the channel or was already delivered.
C18_FinishedSignalOnceAndLast ==
    /\ Cardinality(FinishedPuts) <= 1
    /\ \A k \in FinishedPuts : k = Len(published)
    /\ pc[Debuggee1] \in {"set", "done"} => Cardinality(FinishedPuts) = 1
    /\ finished => FinishedSignalled
    /\ (\E c \in Controllers : last = Outcome(c, "join", "returned")) => FinishedSignalled

\* join() has returned after a run that published snapshots, and the
\* finished signal is still in the channel behind an undelivered snapshot
C18_Witness ==
    /\ last = Outcome(Controller, "join", "returned")
    /\ Len(snapshots) >= 2
    /\ snapshots[Len(snapshots)] = ExitItem
    /\ IsSnapshot(snapshots[1])

(* -------------------------------- C19 --------------------------------- *)

\* the controller waits for a snapshot that only a resumed debuggee can
\* publish while the debuggee waits for a command that only the controller
\* can send
MutualWait ==
    /\ cpc[Controller] = "get_snapshot"
    /\ snapshots = << >>
    /\ commands = << >>
    /\ \E t \in Started : pc[t] = "wait"

\* C19: with the disciplined controller and a program that terminates, the
\* controller and the debuggee never wait for each other, and once started
\* the session eventually is finished with the finished signal received by
\* the controller.
C19_DisciplinedSessionFinishes ==
    /\ []~MutualWait
    /\ (Started # {}) ~> (/\ pc[Debuggee1] = "done"
                          /\ finished
                          /\ last = Outcome(Controller, "get_snapshot", DebuggerExit))

\* the controller stepped through the whole program with a command per
\* snapshot and then received the finished signal
C19_Witness ==
    /\ pc[Debuggee1] = "done"
    /\ how[Debuggee1] = "completed"
    /\ Len(sent) = Len(DeliveredSnapshots)
    /\ Len(sent) >= 3
    /\ last = Outcome(Controller, "get_snapshot", DebuggerExit)

====
